---------------------------- MODULE Spec2Model ----------------------------
(***************************************************************************)
(* CallSignaturesPlugin: call signatures (rules over a call's function     *)
(* name, argument count and arguments) matched against decompiled calls.   *)
(*                                                                         *)
(* Python values are tagged records [t, v]:                                *)
(*   None           [t |-> "none",  v |-> 0]                               *)
(*   str            [t |-> "str",   v |-> <<"a", "B">>]  (one char each)   *)
(*   int            [t |-> "int",   v |-> 7]                               *)
(*   bytes          [t |-> "bytes", v |-> <<255, 0>>]                      *)
(*   list           [t |-> "list",  v |-> <<value, ...>>]                  *)
(*   anything else  [t |-> "other", v |-> 0]   (float, dict, ...)          *)
(* Python sequences are 0-based; Nth(s, i) reads position i of a list.     *)
(***************************************************************************)
EXTENDS Integers, Sequences, FiniteSets, TLC

None == [t |-> "none", v |-> 0]
Str(s) == [t |-> "str", v |-> s]
Num(n) == [t |-> "int", v |-> n]
Bytes(b) == [t |-> "bytes", v |-> b]
List(l) == [t |-> "list", v |-> l]
Other == [t |-> "other", v |-> 0]

Nth(s, i) == s[i + 1]

(***************************************************************************)
(* Text helpers: str.casefold, str.startswith, the substring test `in`.    *)
(***************************************************************************)
FoldChar(c) ==
    CASE c = "A" -> "a"
      [] c = "B" -> "b"
      [] c = "C" -> "c"
      [] c = "D" -> "d"
      [] c = "E" -> "e"
      [] c = "F" -> "f"
      [] c = "O" -> "o"
      [] c = "P" -> "p"
      [] OTHER -> c

Casefold(s) == [i \in 1..Len(s) |-> FoldChar(s[i])]

StartsWith(s, prefix) ==
    /\ Len(prefix) <= Len(s)
    /\ SubSeq(s, 1, Len(prefix)) = prefix

IsSubstring(needle, hay) ==
    \E k \in 0..(Len(hay) - Len(needle)) :
        SubSeq(hay, k + 1, k + Len(needle)) = needle

(***************************************************************************)
(* Python's == on the modelled values (case-sensitive on text; a list       *)
(* equals a list of equal elements; values of different kinds differ).     *)
(***************************************************************************)
RECURSIVE PyEq(_, _)
PyEq(a, b) ==
    IF a.t # b.t THEN FALSE
    ELSE IF a.t = "list"
         THEN /\ Len(a.v) = Len(b.v)
              /\ \A i \in 1..Len(a.v) : PyEq(a.v[i], b.v[i])
         ELSE a.v = b.v

(***************************************************************************)
(* Rule.Type and Rule._get_type                                            *)
(***************************************************************************)
TYPE_UNKNOWN == "unknown"
TYPE_STRING == "string"
TYPE_NUMBER == "number"
TYPE_BYTES == "bytes"

RECURSIVE GetType(_)
GetType(data) ==
    IF data.t = "none" THEN TYPE_UNKNOWN
    ELSE IF data.t = "str" THEN TYPE_STRING
    ELSE IF data.t = "int" THEN TYPE_NUMBER
    ELSE IF data.t = "bytes" THEN TYPE_BYTES
    ELSE IF data.t = "list" /\ Len(data.v) > 0 THEN GetType(data.v[1])
    ELSE TYPE_UNKNOWN

\* Rule.Type(text): the member whose value is the text, TYPE_UNKNOWN by _missing_.
TypeOfText(x) ==
    IF x.t # "str" THEN TYPE_UNKNOWN
    ELSE IF x.v = <<"s", "t", "r", "i", "n", "g">> THEN TYPE_STRING
    ELSE IF x.v = <<"n", "u", "m", "b", "e", "r">> THEN TYPE_NUMBER
    ELSE IF x.v = <<"b", "y", "t", "e", "s">> THEN TYPE_BYTES
    ELSE TYPE_UNKNOWN

(***************************************************************************)
(* The operators                                                           *)
(***************************************************************************)
OPERATORS == <<"true", "equals", "contains", "contains_in", "in">>

OperatorNames == {OPERATORS[i] : i \in 1..Len(OPERATORS)}

OpTrue(value, other) == TRUE

OpEquals(value, other) ==
    IF value.t = "str" /\ other.t = "str"
    THEN Casefold(value.v) = Casefold(other.v)
    ELSE PyEq(value, other)

\* A mutant of OpContains: the observed text is not case-folded.
OpContainsNoFold(value, other) ==
    IF value.t # "str" \/ other.t # "str" THEN FALSE
    ELSE IsSubstring(Casefold(value.v), other.v)

OpContains(value, other) ==
    IF value.t # "str" \/ other.t # "str" THEN FALSE
    ELSE IsSubstring(Casefold(value.v), Casefold(other.v))

OpIn(values, other) ==
    IF values.t # "list" THEN FALSE
    ELSE \E i \in 1..Len(values.v) : OpEquals(values.v[i], other)

OpContainsIn(values, other) ==
    IF values.t # "list" THEN FALSE
    ELSE \E i \in 1..Len(values.v) : OpContains(values.v[i], other)

ApplyOperator(op, value, other) ==
    CASE op = "true" -> OpTrue(value, other)
      [] op = "equals" -> OpEquals(value, other)
      [] op = "contains" -> OpContains(value, other)
      [] op = "contains_in" -> OpContainsIn(value, other)
      [] op = "in" -> OpIn(value, other)

(***************************************************************************)
(* int(x) and bytes.fromhex(x) as Rule.__init__ uses them.  Both return    *)
(* [ok |-> TRUE, v |-> result] or [ok |-> FALSE, err |-> exception name].  *)
(***************************************************************************)
Ok(x) == [ok |-> TRUE, v |-> x]
Err(e) == [ok |-> FALSE, err |-> e]

DigitVal(c) ==
    CASE c = "0" -> 0 [] c = "1" -> 1 [] c = "2" -> 2 [] c = "3" -> 3
      [] c = "4" -> 4 [] c = "5" -> 5 [] c = "6" -> 6 [] c = "7" -> 7
      [] c = "8" -> 8 [] c = "9" -> 9 [] OTHER -> -1

HexVal(c) ==
    CASE DigitVal(c) >= 0 -> DigitVal(c)
      [] FoldChar(c) = "a" -> 10 [] FoldChar(c) = "b" -> 11
      [] FoldChar(c) = "c" -> 12 [] FoldChar(c) = "d" -> 13
      [] FoldChar(c) = "e" -> 14 [] FoldChar(c) = "f" -> 15
      [] OTHER -> -1

RECURSIVE DigitsValue(_, _)
\* The value of a run of decimal digits, -1 if a character is no digit.
DigitsValue(s, acc) ==
    IF s = <<>> THEN acc
    ELSE IF DigitVal(Head(s)) < 0 THEN -1
    ELSE DigitsValue(Tail(s), 10 * acc + DigitVal(Head(s)))

\* int(text): an optional sign, then at least one decimal digit (the white
\* space and underscores int also accepts occur in no modelled declaration).
ParseInt(s) ==
    LET signed == s # <<>> /\ Head(s) \in {"-", "+"}
        digits == IF signed THEN Tail(s) ELSE s
        n == DigitsValue(digits, 0)
    IN  IF digits = <<>> \/ n < 0 THEN Err("ValueError")
        ELSE Ok(IF signed /\ Head(s) = "-" THEN 0 - n ELSE n)

\* int(x) for the kinds of value a declaration's argument_index holds.
PyInt(x) ==
    CASE x.t = "int" -> Ok(x.v)
      [] x.t = "str" -> ParseInt(x.v)
      [] x.t \in {"none", "list", "other"} -> Err("TypeError")

RECURSIVE FromHexChars(_, _)
\* bytes.fromhex on text: white space between bytes is skipped, each byte is
\* two adjacent hexadecimal digits of either case.
FromHexChars(s, acc) ==
    IF s = <<>> THEN Ok(acc)
    ELSE IF Head(s) = " " THEN FromHexChars(Tail(s), acc)
    ELSE IF Len(s) < 2 \/ HexVal(s[1]) < 0 \/ HexVal(s[2]) < 0
         THEN Err("ValueError")
    ELSE FromHexChars(SubSeq(s, 3, Len(s)),
                      Append(acc, 16 * HexVal(s[1]) + HexVal(s[2])))

FromHex(x) ==
    IF x.t # "str" THEN Err("TypeError")
    ELSE LET r == FromHexChars(x.v, <<>>)
         IN  IF r.ok THEN Ok(Bytes(r.v)) ELSE r

(***************************************************************************)
(* A rule declaration (the dict yaml_data) is its key/value pairs in the   *)
(* order the file wrote them: <<<<key, value>>, ...>>, keys distinct.      *)
(***************************************************************************)
HasKey(d, k) == \E i \in 1..Len(d) : d[i][1] = k

Lookup(d, k) == d[CHOOSE i \in 1..Len(d) : d[i][1] = k][2]

ARGUMENT == <<"a", "r", "g", "u", "m", "e", "n", "t">>
ANY_ARGUMENT == <<"a", "n", "y", " ">> \o ARGUMENT
FUNCTION_NAME == <<"f", "u", "n", "c", "t", "i", "o", "n", " ", "n", "a", "m", "e">>
NUMBER_OF_ARGUMENTS ==
    <<"n", "u", "m", "b", "e", "r", " ", "o", "f", " ">> \o ARGUMENT \o <<"s">>

\* A mutant of GetOperator: the operator names are scanned in the order of
\* OPERATORS and the first one the declaration holds is bound.
GetOperatorByName(d) ==
    IF \E j \in 1..Len(OPERATORS) : HasKey(d, OPERATORS[j])
    THEN LET j == CHOOSE j \in 1..Len(OPERATORS) :
                      /\ HasKey(d, OPERATORS[j])
                      /\ \A k \in 1..(j - 1) : ~HasKey(d, OPERATORS[k])
         IN  [operator |-> OPERATORS[j], value |-> Lookup(d, OPERATORS[j])]
    ELSE [operator |-> "true", value |-> None]

\* Rule._get_operator: the declaration's keys are walked in their own order.
GetOperator(d) ==
    IF \E i \in 1..Len(d) : d[i][1] \in OperatorNames
    THEN LET i == CHOOSE i \in 1..Len(d) :
                      /\ d[i][1] \in OperatorNames
                      /\ \A k \in 1..(i - 1) : d[k][1] \notin OperatorNames
         IN  [operator |-> d[i][1], value |-> d[i][2]]
    ELSE [operator |-> "true", value |-> None]

\* Rule.__init__, lines 41-45: a list is decoded element by element (the first
\* element that fails raises), a text is decoded, anything else is kept.
DecodeBytesValue(value) ==
    IF value.t = "list"
    THEN IF \E i \in 1..Len(value.v) : ~FromHex(value.v[i]).ok
         THEN FromHex(value.v[CHOOSE i \in 1..Len(value.v) :
                          /\ ~FromHex(value.v[i]).ok
                          /\ \A k \in 1..(i - 1) : FromHex(value.v[k]).ok])
         ELSE Ok(List([i \in 1..Len(value.v) |-> FromHex(value.v[i]).v]))
    ELSE IF value.t = "str" THEN FromHex(value)
    ELSE Ok(value)

\* Rule.__init__.  argument_index is None where the code leaves it unset.
RuleInit(d) ==
    IF ~HasKey(d, "element") THEN Err("KeyError")
    ELSE
    LET element == Lookup(d, "element").v
        indexed == StartsWith(element, ARGUMENT)
        index == IF indexed /\ HasKey(d, "argument_index")
                 THEN PyInt(Lookup(d, "argument_index")) ELSE Ok(0)
        found == GetOperator(d)
        type == IF HasKey(d, "type") THEN TypeOfText(Lookup(d, "type"))
                ELSE GetType(found.value)
        value == IF type = TYPE_BYTES THEN DecodeBytesValue(found.value)
                 ELSE Ok(found.value)
    IN  IF indexed /\ ~HasKey(d, "argument_index") THEN Err("KeyError")
        ELSE IF ~index.ok THEN index
        ELSE IF ~value.ok THEN value
        ELSE Ok([element |-> element,
                 argument_index |-> IF indexed THEN Num(index.v) ELSE None,
                 operator |-> found.operator,
                 value |-> value.v,
                 type |-> type])

\* A mutant of RuleMatch: the operator decides alone, the types are not compared.
RuleMatchUntyped(rule, other) ==
    IF GetType(other) = TYPE_UNKNOWN /\ rule.element = FUNCTION_NAME THEN TRUE
    ELSE ApplyOperator(rule.operator, rule.value, other)

\* A mutant of RuleMatch: an unknown function name gets no leniency.
RuleMatchStrict(rule, other) ==
    GetType(other) = rule.type /\ ApplyOperator(rule.operator, rule.value, other)

\* Rule.match
RuleMatch(rule, other) ==
    LET other_type == GetType(other)
    IN  IF other_type = TYPE_UNKNOWN /\ rule.element = FUNCTION_NAME THEN TRUE
        ELSE /\ other_type = rule.type
             /\ ApplyOperator(rule.operator, rule.value, other)

(***************************************************************************)
(* Call: the decompiler's call object is [ea, name, args]; an argument is  *)
(* [type, val].  A number val is the integer's 16-bit limbs, least         *)
(* significant first: <<1, 0, 1>> is 2^32 + 1.  A global val is the string *)
(* literal's bytes at the address (None where there is none), a ref val is *)
(* [mem, size]: the bytes at obj_ea and the size of the data element, an   *)
(* unk val is its .string.                                                 *)
(***************************************************************************)
SUB_PREFIX == <<"s", "u", "b", "_">>

Utf8Char(b) ==
    CASE b = 65 -> "A" [] b = 66 -> "B" [] b = 97 -> "a" [] b = 98 -> "b"
      [] b = 120 -> "x" [] OTHER -> "?"

\* bytes.decode("utf-8") on the modelled bytes: ASCII, or an invalid byte.
Utf8Decode(b) ==
    IF \E i \in 1..Len(b) : b[i] >= 128 THEN Err("ValueError")
    ELSE Ok(Str([i \in 1..Len(b) |-> Utf8Char(b[i])]))

\* Call._get_global_string
GetGlobalString(lit) ==
    IF lit.t = "none" THEN Err("ValueError") ELSE Utf8Decode(lit.v)

Limb(val, i) == IF i <= Len(val) THEN val[i] ELSE 0

\* 0xFFFFFFFF & val: the two low limbs
MaskLow32(val) == Limb(val, 1) + 65536 * Limb(val, 2)

\* One pass of the loop of Call.__init__ over call.args.
ArgumentValue(argument) ==
    IF argument.type = "string" THEN Str(argument.val)
    ELSE IF argument.type = "number" THEN Num(MaskLow32(argument.val))
    ELSE IF argument.type = "global"
         THEN LET r == GetGlobalString(argument.val)
              IN  IF r.ok THEN r.v ELSE None
    ELSE IF argument.type = "ref"
         THEN Bytes(SubSeq(argument.val.mem, 1, argument.val.size))
    ELSE IF argument.type = "unk" /\ argument.val.t # "none" THEN argument.val
    ELSE None

\* Call.__init__
CallInit(c) ==
    [address |-> c.ea,
     function_name |-> IF ~StartsWith(c.name, SUB_PREFIX) THEN Str(c.name) ELSE None,
     number_of_arguments |-> Len(c.args),
     arguments |-> [i \in 1..Len(c.args) |-> ArgumentValue(c.args[i])]]

(***************************************************************************)
(* Signature.match: what one pass of its loop does with one rule.  The     *)
(* outcome is "match", "nomatch" or the exception raised; tested lists the *)
(* observed values handed to rule.match, in order.                         *)
(***************************************************************************)
Outcome(res, tested) == [res |-> res, tested |-> tested]

MatchOutcome(rule, other) ==
    Outcome(IF RuleMatch(rule, other) THEN "match" ELSE "nomatch", <<other>>)

\* call.arguments[i] for a Python index i: counted from the end when negative,
\* IndexError outside -len .. len-1.
Subscript(list, i) ==
    IF 0 <= i /\ i < Len(list) THEN Ok(list[i + 1])
    ELSE IF 0 - Len(list) <= i /\ i < 0 THEN Ok(list[Len(list) + i + 1])
    ELSE Err("IndexError")

\* A mutant of RuleOutcome: an `any argument` rule wants every argument to match.
RuleOutcomeEveryArgument(rule, call) ==
    IF rule.element = FUNCTION_NAME THEN MatchOutcome(rule, call.function_name)
    ELSE IF rule.element = NUMBER_OF_ARGUMENTS
         THEN MatchOutcome(rule, Num(call.number_of_arguments))
    ELSE IF rule.element = ARGUMENT
         THEN IF rule.argument_index.v < call.number_of_arguments
              THEN LET a == Subscript(call.arguments, rule.argument_index.v)
                   IN  IF a.ok THEN MatchOutcome(rule, a.v)
                       ELSE Outcome(a.err, <<>>)
              ELSE Outcome("nomatch", <<>>)
    ELSE IF rule.element = ANY_ARGUMENT
         THEN Outcome(IF \A i \in 1..Len(call.arguments) :
                            RuleMatch(rule, call.arguments[i])
                      THEN "match" ELSE "nomatch", call.arguments)
    ELSE Outcome("ValueError", <<>>)

\* A mutant of RuleOutcome: a rule of an unrecognised element is a non-match.
RuleOutcomeSilent(rule, call) ==
    IF rule.element = FUNCTION_NAME THEN MatchOutcome(rule, call.function_name)
    ELSE IF rule.element = NUMBER_OF_ARGUMENTS
         THEN MatchOutcome(rule, Num(call.number_of_arguments))
    ELSE IF rule.element = ARGUMENT
         THEN IF rule.argument_index.v < call.number_of_arguments
              THEN LET a == Subscript(call.arguments, rule.argument_index.v)
                   IN  IF a.ok THEN MatchOutcome(rule, a.v)
                       ELSE Outcome(a.err, <<>>)
              ELSE Outcome("nomatch", <<>>)
    ELSE IF rule.element = ANY_ARGUMENT
         THEN IF \E i \in 1..Len(call.arguments) : RuleMatch(rule, call.arguments[i])
              THEN LET i == CHOOSE i \in 1..Len(call.arguments) :
                            /\ RuleMatch(rule, call.arguments[i])
                            /\ \A k \in 1..(i - 1) : ~RuleMatch(rule, call.arguments[k])
                   IN  Outcome("match", SubSeq(call.arguments, 1, i))
              ELSE Outcome("nomatch", call.arguments)
    ELSE Outcome("nomatch", <<>>)

RuleOutcome(rule, call) ==
    IF rule.element = FUNCTION_NAME THEN MatchOutcome(rule, call.function_name)
    ELSE IF rule.element = NUMBER_OF_ARGUMENTS
         THEN MatchOutcome(rule, Num(call.number_of_arguments))
    ELSE IF rule.element = ARGUMENT
         THEN IF rule.argument_index.v < call.number_of_arguments
              THEN LET a == Subscript(call.arguments, rule.argument_index.v)
                   IN  IF a.ok THEN MatchOutcome(rule, a.v)
                       ELSE Outcome(a.err, <<>>)
              ELSE Outcome("nomatch", <<>>)
    ELSE IF rule.element = ANY_ARGUMENT
         THEN IF \E i \in 1..Len(call.arguments) : RuleMatch(rule, call.arguments[i])
              THEN LET i == CHOOSE i \in 1..Len(call.arguments) :
                            /\ RuleMatch(rule, call.arguments[i])
                            /\ \A k \in 1..(i - 1) : ~RuleMatch(rule, call.arguments[k])
                   IN  Outcome("match", SubSeq(call.arguments, 1, i))
              ELSE Outcome("nomatch", call.arguments)
    ELSE Outcome("ValueError", <<>>)

\* What Signature.match does on leaving a rule: go on, return False, or raise.
ResultOf(res) == IF res = "nomatch" THEN "false" ELSE res

RECURSIVE SignatureMatch(_, _)
\* Signature.match as a whole, on the rules still to be tried: "true", "false"
\* or the exception raised.
SignatureMatch(rules, call) ==
    IF rules = <<>> THEN "true"
    ELSE LET o == RuleOutcome(Head(rules), call)
         IN  IF o.res = "match" THEN SignatureMatch(Tail(rules), call)
             ELSE ResultOf(o.res)

(***************************************************************************)
(* Signature.__init__ and Signature.read_signatures.  A path is the        *)
(* sequence of its components; a file's content is [parses, data]: whether *)
(* yaml.safe_load accepts the text, and the mapping it returns.            *)
(***************************************************************************)
EndsWith(s, suffix) ==
    /\ Len(suffix) <= Len(s)
    /\ SubSeq(s, Len(s) - Len(suffix) + 1, Len(s)) = suffix

YAML_EXT == <<".", "y", "a", "m", "l">>
YML_EXT == <<".", "y", "m", "l">>

\* os.path.join(subdirectory_path, filename)
PathJoin(dir, name) == Append(dir, name)

\* os.path.basename(path)
Basename(path) == path[Len(path)]

\* Signature(path): the first rule declaration that Rule rejects raises.
SignatureInit(path, content) ==
    IF ~content.parses THEN Err("YAMLError")
    ELSE IF ~HasKey(content.data, "signature") THEN Err("KeyError")
    ELSE
    LET data == Lookup(content.data, "signature")
        declared == Lookup(data, "rules")
    IN  IF ~HasKey(data, "technique") THEN Err("KeyError")
        ELSE IF ~HasKey(data, "rules") THEN Err("KeyError")
        ELSE IF \E i \in 1..Len(declared) : ~RuleInit(declared[i]).ok
        THEN RuleInit(declared[CHOOSE i \in 1..Len(declared) :
                          /\ ~RuleInit(declared[i]).ok
                          /\ \A k \in 1..(i - 1) : RuleInit(declared[k]).ok])
        ELSE Ok([path |-> path,
                 filename |-> Basename(path),
                 technique |-> Lookup(data, "technique"),
                 description |-> IF HasKey(data, "description")
                                 THEN Lookup(data, "description") ELSE Str(<<>>),
                 rules |-> [i \in 1..Len(declared) |-> RuleInit(declared[i]).v]])

\* The test of read_signatures on a file name.
IsDeclarationFile(name) == EndsWith(name, YAML_EXT) \/ EndsWith(name, YML_EXT)

(***************************************************************************)
(* hex(), bytes.hex(), Call.__str__ and the line add_item appends.         *)
(***************************************************************************)
HexDigitChar(d) ==
    <<"0", "1", "2", "3", "4", "5", "6", "7",
      "8", "9", "a", "b", "c", "d", "e", "f">>[d + 1]

RECURSIVE HexDigits(_)
HexDigits(n) ==
    IF n < 16 THEN <<HexDigitChar(n)>>
    ELSE Append(HexDigits(n \div 16), HexDigitChar(n % 16))

\* hex(n) for n >= 0
Hex(n) == <<"0", "x">> \o HexDigits(n)

RECURSIVE BytesHex(_)
\* bytes.hex(): two digits a byte
BytesHex(b) ==
    IF b = <<>> THEN <<>>
    ELSE <<HexDigitChar(Head(b) \div 16), HexDigitChar(Head(b) % 16)>>
             \o BytesHex(Tail(b))

ArgumentStr(argument) ==
    LET argument_type == GetType(argument)
    IN  IF argument_type = TYPE_STRING THEN <<"'">> \o argument.v \o <<"'">>
        ELSE IF argument_type = TYPE_NUMBER THEN Hex(argument.v)
        ELSE IF argument_type = TYPE_BYTES THEN <<"0", "x">> \o BytesHex(argument.v)
        ELSE <<"?">>

RECURSIVE ArgumentString(_)
\* The loop of Call.__str__: every argument followed by ", ".
ArgumentString(arguments) ==
    IF arguments = <<>> THEN <<>>
    ELSE ArgumentStr(Head(arguments)) \o <<",", " ">> \o ArgumentString(Tail(arguments))

\* Call.__str__
CallStr(c) ==
    LET argument_string == ArgumentString(c.arguments)
        name == IF c.function_name.t = "none" \/ c.function_name.v = <<>>
                THEN <<"?">> ELSE c.function_name.v
    IN  name \o <<"(">>
             \o SubSeq(argument_string, 1, Len(argument_string) - 2) \o <<")">>

\* CallSignaturesChoose.add_item (Refresh redraws the tab, it changes no line)
AddItem(lines, c, signature) ==
    Append(lines,
           <<Hex(c.address), signature.technique, CallStr(c), signature.filename>>)

FUNC_LIB == 4
FUNC_THUNK == 128

\* flags & bit
HasFlag(flags, bit) == (flags \div bit) % 2 = 1

\* A mutant of Skipped: a function that fails to decompile is not skipped
\* (its calls are scanned as if found).
SkippedFlagsOnly(function) ==
    HasFlag(function.flags, FUNC_LIB) \/ HasFlag(function.flags, FUNC_THUNK)

\* run, lines 80-89: the functions whose calls are not scanned.
Skipped(function) ==
    \/ HasFlag(function.flags, FUNC_LIB) \/ HasFlag(function.flags, FUNC_THUNK)
    \/ function.decompile \in {"RuntimeError", "IndexError"}

(***************************************************************************)
(* Rule construction and Rule.match on one declaration and one observed    *)
(* value.                                                                  *)
(***************************************************************************)
VARIABLES decl, built, observed, mres, opres

ruleVars == <<decl, built, observed, mres, opres>>

\* Signature.match on one signature and one call
VARIABLES sig, raw, call, matchpc, evals, result

matchVars == <<sig, raw, call, matchpc, evals, result>>

\* Signature.read_signatures over the files of a walk; signatures is the
\* plugin's catalog
VARIABLES files, fidx, loaded, signatures, loadpc

loadVars == <<files, fidx, loaded, signatures, loadpc>>

\* CallSignaturesPlugin.run; items are the lines of the chooser tab
VARIABLES functions, items, items0, pos, runpc

runVars == <<functions, items, items0, pos, runpc>>

MaxListLen == 2

RECURSIVE SeqsUpTo(_, _)
\* Every sequence over S of length at most n.
SeqsUpTo(S, n) ==
    IF n = 0 THEN {<<>>}
    ELSE LET shorter == SeqsUpTo(S, n - 1)
         IN  shorter \cup {Append(q, x) : q \in shorter, x \in S}

DeclScalars ==
    {Str(<<"a", "B">>), Str(<<"f", "F", "0", "0">>), Str(<<"f", "g">>), Num(1)}

DeclValues == DeclScalars \cup {List(l) : l \in SeqsUpTo(DeclScalars, MaxListLen)}

PairValues == {Str(<<"a", "B">>), Num(1)}

Key(k, x) == <<<<k, x>>>>

ElementParts ==
    {Key("element", Str(e)) :
        e \in {FUNCTION_NAME, NUMBER_OF_ARGUMENTS, ANY_ARGUMENT, <<"r", "e", "t">>}}
    \cup {Key("element", Str(ARGUMENT)) \o ix :
        ix \in {<<>>, Key("argument_index", Num(0)),
                Key("argument_index", Str(<<"-", "1">>)),
                Key("argument_index", Str(<<"x">>))}}

TypeParts ==
    {<<>>} \cup {Key("type", Str(t)) :
        t \in {<<"s", "t", "r", "i", "n", "g">>, <<"n", "u", "m", "b", "e", "r">>,
               <<"b", "y", "t", "e", "s">>, <<"B", "y", "t", "e", "s">>}}

OperatorParts ==
    {<<>>}
    \cup {Key(op, x) : op \in OperatorNames, x \in DeclValues}
    \cup {Key(ops[1], x1) \o Key(ops[2], x2) :
            ops \in {p \in OperatorNames \X OperatorNames : p[1] # p[2]},
            x1 \in PairValues, x2 \in PairValues}

Declarations ==
    {<<>>} \cup {e \o t \o o : e \in ElementParts, t \in TypeParts, o \in OperatorParts}

ObservedValues ==
    {None, Str(<<"x", "A", "b">>), Str(<<"a", "b">>), Str(<<"b">>),
     Num(1), Num(2), Bytes(<<255, 0>>), Bytes(<<255>>)}

Unbuilt == Err("unbuilt")

B2S(b) == IF b THEN "true" ELSE "false"

RuleInitVars ==
    /\ decl \in Declarations
    /\ observed \in ObservedValues
    /\ built = Unbuilt
    /\ mres = "none"
    /\ opres = "none"

\* Rule(yaml_data)
Construct ==
    /\ built = Unbuilt
    /\ built' = RuleInit(decl)
    /\ UNCHANGED <<decl, observed, mres, opres>>

\* rule.match(observed)
Match ==
    /\ built.ok
    /\ mres = "none"
    /\ mres' = B2S(RuleMatch(built.v, observed))
    /\ UNCHANGED <<decl, built, observed, opres>>

\* rule.operator(rule.value, observed), the call on line 98
Operate ==
    /\ built.ok
    /\ opres = "none"
    /\ opres' = B2S(ApplyOperator(built.v.operator, built.v.value, observed))
    /\ UNCHANGED <<decl, built, observed, mres>>

(***************************************************************************)
(* Signature.match, one rule per step, on a call built by Call.__init__.   *)
(***************************************************************************)
MaxRules == 2
MaxArgs == 2

T_STRING == <<"s", "t", "r", "i", "n", "g">>
T_NUMBER == <<"n", "u", "m", "b", "e", "r">>
T_BYTES == <<"b", "y", "t", "e", "s">>
OPEN == <<"o", "p", "e", "n">>

\* The rule declarations the signatures are made of.
RuleDeclarations ==
    { Key("element", Str(FUNCTION_NAME)) \o Key("equals", Str(OPEN)),
      Key("element", Str(FUNCTION_NAME)) \o Key("type", Str(T_NUMBER)),
      Key("element", Str(FUNCTION_NAME))
          \o Key("in", List(<<Str(<<"a", "B">>), Str(OPEN)>>)),
      Key("element", Str(FUNCTION_NAME)) \o Key("type", Str(T_NUMBER))
          \o Key("contains", Str(<<"p", "e">>)),
      Key("element", Str(NUMBER_OF_ARGUMENTS)) \o Key("equals", Num(1)),
      Key("element", Str(ARGUMENT)) \o Key("argument_index", Num(0))
          \o Key("contains", Str(<<"a", "B">>)),
      Key("element", Str(ARGUMENT)) \o Key("argument_index", Num(1)),
      Key("element", Str(ARGUMENT)) \o Key("argument_index", Str(<<"-", "1">>))
          \o Key("type", Str(T_STRING)),
      Key("element", Str(ARGUMENT)) \o Key("argument_index", Num(0))
          \o Key("type", Str(T_BYTES)) \o Key("equals", Str(<<"f", "F", "0", "0">>)),
      Key("element", Str(ANY_ARGUMENT)) \o Key("in", List(<<Num(1), Num(2)>>)),
      Key("element", Str(<<"r", "e", "t">>)) }

Rules == {RuleInit(d).v : d \in RuleDeclarations}

RawArguments ==
    { [type |-> "string", val |-> <<"x", "A", "b">>],
      [type |-> "number", val |-> <<1, 0, 1>>],
      [type |-> "global", val |-> Bytes(<<97, 200>>)],
      [type |-> "ref", val |-> [mem |-> <<255, 0, 7>>, size |-> 2]],
      [type |-> "unk", val |-> Str(<<"a", "B">>)] }

RawNames == {SUB_PREFIX \o <<"1">>, <<"O", "p", "e", "n">>}

RawCalls ==
    {[ea |-> 26, name |-> n, args |-> a] :
        n \in RawNames, a \in SeqsUpTo(RawArguments, MaxArgs)}

NoCall ==
    [address |-> 0, function_name |-> None, number_of_arguments |-> 0,
     arguments |-> <<>>]

MatchInitVars ==
    /\ sig \in SeqsUpTo(Rules, MaxRules)
    /\ raw \in RawCalls
    /\ call = NoCall
    /\ matchpc = "new"
    /\ evals = <<>>
    /\ result = "none"

\* call = Call(call_object)
BuildCall ==
    /\ matchpc = "new"
    /\ call' = CallInit(raw)
    /\ matchpc' = "matching"
    /\ UNCHANGED <<sig, raw, evals, result>>

\* One pass of the loop of Signature.match: the rule after those that matched.
MatchRule ==
    /\ matchpc = "matching"
    /\ Len(evals) < Len(sig)
    /\ LET o == RuleOutcome(sig[Len(evals) + 1], call)
       IN  /\ evals' = Append(evals, o)
           /\ IF o.res = "match"
              THEN UNCHANGED <<matchpc, result>>
              ELSE matchpc' = "done" /\ result' = ResultOf(o.res)
    /\ UNCHANGED <<sig, raw, call>>

\* The loop is over: return True
MatchReturn ==
    /\ matchpc = "matching"
    /\ Len(evals) = Len(sig)
    /\ matchpc' = "done"
    /\ result' = "true"
    /\ UNCHANGED <<sig, raw, call, evals>>

(***************************************************************************)
(* Signature.read_signatures, one file of the walk per step.               *)
(***************************************************************************)
MaxFiles == 2

T1 == Str(<<"T", "1">>)
T2 == Str(<<"T", "2">>)

ROOT == <<"signatures">>

Document(body) == [parses |-> TRUE, data |-> Key("signature", body)]

NameRule == Key("element", Str(FUNCTION_NAME)) \o Key("equals", Str(OPEN))

CountRule == Key("element", Str(NUMBER_OF_ARGUMENTS)) \o Key("equals", Num(1))

LastArgumentRule ==
    Key("element", Str(ARGUMENT)) \o Key("argument_index", Str(<<"-", "1">>))
        \o Key("type", Str(T_STRING))

\* The files a walk may meet: two well-formed declarations, then a bad hex
\* value, a missing technique, an `argument` rule without argument_index, a
\* text yaml.safe_load rejects, and a file that is no declaration file.
WalkFiles ==
    { [dir |-> ROOT, name |-> <<"a">> \o YAML_EXT,
       content |-> Document(Key("technique", T1) \o Key("rules", <<NameRule>>))],
      [dir |-> Append(ROOT, <<"s">>), name |-> <<"b">> \o YML_EXT,
       content |-> Document(Key("technique", T2)
                       \o Key("description", Str(<<"d">>))
                       \o Key("rules", <<CountRule, NameRule>>))],
      [dir |-> ROOT, name |-> <<"c">> \o YAML_EXT,
       content |-> Document(Key("technique", T1)
                       \o Key("rules", <<Key("element", Str(ANY_ARGUMENT))
                              \o Key("type", Str(T_BYTES))
                              \o Key("equals", Str(<<"f", "g">>))>>))],
      [dir |-> ROOT, name |-> <<"d">> \o YAML_EXT,
       content |-> Document(Key("rules", <<NameRule>>))],
      [dir |-> ROOT, name |-> <<"e">> \o YML_EXT,
       content |-> Document(Key("technique", T2)
                       \o Key("rules", <<Key("element", Str(ARGUMENT))>>))],
      [dir |-> ROOT, name |-> <<"g">> \o YAML_EXT,
       content |-> [parses |-> FALSE, data |-> <<>>]],
      [dir |-> ROOT, name |-> <<"r", ".", "t", "x", "t">>,
       content |-> [parses |-> FALSE, data |-> <<>>]] }

LoadInitVars ==
    /\ files \in SeqsUpTo(WalkFiles, MaxFiles)
    /\ fidx = 0
    /\ loaded = <<>>
    /\ signatures = <<>>
    /\ loadpc = "walking"

\* One pass of the loops of read_signatures: a declaration file is parsed and
\* appended, and an exception of Signature(...) leaves read_signatures.
LoadFile ==
    /\ loadpc = "walking"
    /\ fidx < Len(files)
    /\ LET f == files[fidx + 1]
           r == SignatureInit(PathJoin(f.dir, f.name), f.content)
       IN  IF ~IsDeclarationFile(f.name)
           THEN UNCHANGED <<loaded, loadpc>>
           ELSE IF r.ok
           THEN loaded' = Append(loaded, r.v) /\ UNCHANGED loadpc
           ELSE loadpc' = r.err /\ UNCHANGED loaded
    /\ fidx' = fidx + 1
    /\ UNCHANGED <<files, signatures>>

\* return signatures, assigned to self.signatures by init
LoadReturn ==
    /\ loadpc = "walking"
    /\ fidx = Len(files)
    /\ signatures' = loaded
    /\ loadpc' = "returned"
    /\ UNCHANGED <<files, fidx, loaded>>

(***************************************************************************)
(* CallSignaturesPlugin.run: the functions one by one, and for a function  *)
(* that is scanned one (call, signature) test per step.                    *)
(***************************************************************************)
MaxFuncs == 2
MaxSigs == 2

\* The catalogs: what read_signatures returns for declaration files.
CatalogFiles ==
    { [dir |-> ROOT, name |-> <<"a">> \o YAML_EXT,
       content |-> Document(Key("technique", T1) \o Key("rules", <<NameRule>>))],
      [dir |-> ROOT, name |-> <<"n">> \o YAML_EXT,
       content |-> Document(Key("technique", T2) \o Key("rules", <<CountRule>>))],
      [dir |-> ROOT, name |-> <<"l">> \o YAML_EXT,
       content |-> Document(Key("technique", T2)
                       \o Key("rules", <<LastArgumentRule>>))],
      [dir |-> ROOT, name |-> <<"u">> \o YAML_EXT,
       content |-> Document(Key("technique", T1)
                       \o Key("rules", <<CountRule, Key("element", Str(<<"r", "e", "t">>))>>))] }

CatalogSignatures ==
    {SignatureInit(PathJoin(f.dir, f.name), f.content).v : f \in CatalogFiles}

OpenCall(ea, args) == [ea |-> ea, name |-> <<"O", "p", "e", "n">>, args |-> args]

StringArgument == [type |-> "string", val |-> <<"x", "A", "b">>]

NumberArgument == [type |-> "number", val |-> <<1, 0, 1>>]

RunFunctions ==
    { [ea |-> 16, flags |-> 0, decompile |-> "ok",
       calls |-> <<OpenCall(18, <<StringArgument>>), OpenCall(20, <<>>)>>],
      [ea |-> 32, flags |-> 0, decompile |-> "ok",
       calls |-> <<[ea |-> 33, name |-> SUB_PREFIX \o <<"1">>,
                    args |-> <<NumberArgument>>]>>],
      [ea |-> 48, flags |-> FUNC_LIB, decompile |-> "ok",
       calls |-> <<OpenCall(49, <<StringArgument>>)>>],
      [ea |-> 64, flags |-> FUNC_THUNK + 1, decompile |-> "ok",
       calls |-> <<OpenCall(65, <<StringArgument>>)>>],
      [ea |-> 80, flags |-> 0, decompile |-> "RuntimeError",
       calls |-> <<OpenCall(81, <<StringArgument>>)>>] }

OldLine == <<Hex(255), T1, <<"f", "(", ")">>, <<"a">> \o YAML_EXT>>

RunInitVars ==
    /\ functions \in SeqsUpTo(RunFunctions, MaxFuncs)
    /\ signatures \in SeqsUpTo(CatalogSignatures, MaxSigs)
    /\ items0 \in {<<>>, <<OldLine>>}
    /\ items = items0
    /\ pos = [f |-> 0, c |-> 0, s |-> 0]
    /\ runpc = "functions"

\* for ea in idautils.Functions(): skip the function, or decompile it and
\* start on its calls.
RunFunction ==
    /\ runpc = "functions"
    /\ pos.f < Len(functions)
    /\ IF Skipped(functions[pos.f + 1])
       THEN pos' = [f |-> pos.f + 1, c |-> 0, s |-> 0] /\ UNCHANGED runpc
       ELSE pos' = [pos EXCEPT !.c = 0, !.s = 0] /\ runpc' = "calls"
    /\ UNCHANGED <<functions, items, items0, signatures>>

\* if signature.match(call): self.chooser_tab.add_item(call, signature)
RunTest ==
    /\ runpc = "calls"
    /\ pos.c < Len(functions[pos.f + 1].calls)
    /\ pos.s < Len(signatures)
    /\ LET c == CallInit(functions[pos.f + 1].calls[pos.c + 1])
           signature == signatures[pos.s + 1]
           r == SignatureMatch(signature.rules, c)
       IN  IF r = "true"
           THEN /\ items' = AddItem(items, c, signature)
                /\ pos' = [pos EXCEPT !.s = pos.s + 1]
                /\ UNCHANGED runpc
           ELSE IF r = "false"
           THEN /\ pos' = [pos EXCEPT !.s = pos.s + 1]
                /\ UNCHANGED <<items, runpc>>
           ELSE /\ runpc' = r
                /\ UNCHANGED <<items, pos>>
    /\ UNCHANGED <<functions, items0, signatures>>

\* The catalog is exhausted for this call: the next call of the function.
RunNextCall ==
    /\ runpc = "calls"
    /\ pos.c < Len(functions[pos.f + 1].calls)
    /\ pos.s = Len(signatures)
    /\ pos' = [pos EXCEPT !.c = pos.c + 1, !.s = 0]
    /\ UNCHANGED <<functions, items, items0, signatures, runpc>>

\* The calls of the function are exhausted: the next function.
RunNextFunction ==
    /\ runpc = "calls"
    /\ pos.c = Len(functions[pos.f + 1].calls)
    /\ pos' = [f |-> pos.f + 1, c |-> 0, s |-> 0]
    /\ runpc' = "functions"
    /\ UNCHANGED <<functions, items, items0, signatures>>

\* The functions are exhausted: run returns.
RunReturn ==
    /\ runpc = "functions"
    /\ pos.f = Len(functions)
    /\ runpc' = "done"
    /\ UNCHANGED <<functions, items, items0, signatures, pos>>

(***************************************************************************)
(* The specifications: each drives one part, the others are at rest.       *)
(***************************************************************************)
RuleIdle ==
    /\ decl = <<>>
    /\ observed = None
    /\ built = Unbuilt
    /\ mres = "none"
    /\ opres = "none"

MatchIdle ==
    /\ sig = <<>>
    /\ raw = [ea |-> 0, name |-> <<>>, args |-> <<>>]
    /\ call = NoCall
    /\ matchpc = "idle"
    /\ evals = <<>>
    /\ result = "none"

LoadIdle ==
    /\ files = <<>>
    /\ fidx = 0
    /\ loaded = <<>>
    /\ loadpc = "idle"

RunIdle ==
    /\ functions = <<>>
    /\ items0 = <<>>
    /\ items = <<>>
    /\ pos = [f |-> 0, c |-> 0, s |-> 0]
    /\ runpc = "idle"

vars == <<ruleVars, matchVars, loadVars, runVars>>

RuleNext ==
    \/ Construct /\ UNCHANGED <<matchVars, loadVars, runVars>>
    \/ Match /\ UNCHANGED <<matchVars, loadVars, runVars>>
    \/ Operate /\ UNCHANGED <<matchVars, loadVars, runVars>>

MatchNext ==
    \/ BuildCall /\ UNCHANGED <<ruleVars, loadVars, runVars>>
    \/ MatchRule /\ UNCHANGED <<ruleVars, loadVars, runVars>>
    \/ MatchReturn /\ UNCHANGED <<ruleVars, loadVars, runVars>>

LoadNext ==
    \/ LoadFile /\ UNCHANGED <<ruleVars, matchVars, runVars>>
    \/ LoadReturn /\ UNCHANGED <<ruleVars, matchVars, runVars>>

RunNext ==
    \/ RunFunction /\ UNCHANGED <<ruleVars, matchVars, files, fidx, loaded, loadpc>>
    \/ RunTest /\ UNCHANGED <<ruleVars, matchVars, files, fidx, loaded, loadpc>>
    \/ RunNextCall /\ UNCHANGED <<ruleVars, matchVars, files, fidx, loaded, loadpc>>
    \/ RunNextFunction /\ UNCHANGED <<ruleVars, matchVars, files, fidx, loaded, loadpc>>
    \/ RunReturn /\ UNCHANGED <<ruleVars, matchVars, files, fidx, loaded, loadpc>>

RuleInitial == RuleInitVars /\ MatchIdle /\ LoadIdle /\ signatures = <<>> /\ RunIdle

MatchInitial == MatchInitVars /\ RuleIdle /\ LoadIdle /\ signatures = <<>> /\ RunIdle

LoadInitial == LoadInitVars /\ RuleIdle /\ MatchIdle /\ RunIdle

RunInitial == RunInitVars /\ RuleIdle /\ MatchIdle /\ LoadIdle

SpecRule == RuleInitial /\ [][RuleNext]_vars

SpecMatch == MatchInitial /\ [][MatchNext]_vars

SpecLoad == LoadInitial /\ [][LoadNext]_vars

SpecRun == RunInitial /\ [][RunNext]_vars

(***************************************************************************)
(* Properties of Rule construction and Rule.match (SpecRule)               *)
(***************************************************************************)
\* The type of an observed scalar, read off the kind of value it is.
KindOf(x) ==
    CASE x.t = "str" -> TYPE_STRING
      [] x.t = "int" -> TYPE_NUMBER
      [] x.t = "bytes" -> TYPE_BYTES
      [] OTHER -> TYPE_UNKNOWN

HasOperatorKey(d) == \E i \in 1..Len(d) : d[i][1] \in OperatorNames

Lenient == built.v.element = FUNCTION_NAME /\ KindOf(observed) = TYPE_UNKNOWN

\* C3: apart from the leniency for an unknown function name, Rule.match is true
\* iff the observed value's type equals the rule's type and the rule's operator
\* holds of (declared value, observed value).  So a rule never matches a value of
\* another type, whatever its operator; a rule declared with a text and no type
\* never matches a number; and a rule declared with neither operator nor type
\* matches no text, number or bytes.
C3_MatchIffTypeAndOperator ==
    (built.ok /\ mres # "none" /\ ~Lenient) =>
        /\ mres = "true" <=>
              /\ KindOf(observed) = built.v.type
              /\ ApplyOperator(built.v.operator, built.v.value, observed)
        /\ KindOf(observed) # built.v.type => mres = "false"
        /\ ( /\ ~HasKey(decl, "type")
             /\ HasOperatorKey(decl)
             /\ GetOperator(decl).value.t = "str"
             /\ observed.t = "int" ) => mres = "false"
        /\ ( /\ ~HasKey(decl, "type")
             /\ ~HasOperatorKey(decl)
             /\ observed.t \in {"str", "int", "bytes"} ) => mres = "false"

\* C3's case: a String-typed rule whose operator is `true` has been matched
\* against a number, and did not match.
C3_Witness ==
    /\ built.ok
    /\ built.v.element = ARGUMENT
    /\ built.v.type = TYPE_STRING
    /\ built.v.operator = "true"
    /\ observed.t = "int"
    /\ mres = "false"

\* C8 (as claimed): a constructed rule of type Bytes holds no declared value, a
\* byte sequence, or a list of byte sequences; a declared value that is not
\* hex text never survives construction undecoded.
C8_BytesValueIsDecoded ==
    (built.ok /\ built.v.type = TYPE_BYTES /\ built.v.value.t # "none") =>
        \/ built.v.value.t = "bytes"
        \/ /\ built.v.value.t = "list"
           /\ \A i \in 1..Len(built.v.value.v) : built.v.value.v[i].t = "bytes"

SwapChar(c) ==
    CASE c = "a" -> "A" [] c = "A" -> "a"
      [] c = "b" -> "B" [] c = "B" -> "b"
      [] c = "f" -> "F" [] c = "F" -> "f"
      [] OTHER -> c

\* A value with the case of every letter of its text (or of its elements'
\* text) swapped.
SwapCase(x) ==
    IF x.t = "str" THEN Str([i \in 1..Len(x.v) |-> SwapChar(x.v[i])])
    ELSE IF x.t = "list"
    THEN List([i \in 1..Len(x.v) |->
            IF x.v[i].t = "str"
            THEN Str([j \in 1..Len(x.v[i].v) |-> SwapChar(x.v[i].v[j])])
            ELSE x.v[i]])
    ELSE x

\* C9: contains_in(declared, observed) is true iff declared is a list and one of
\* its elements is a text whose case-folded form is a substring of the
\* case-folded observed text: false for a declared value that is no list, an
\* observed value that is no text, an empty list.  Swapping the case of the
\* observed text or of the elements does not change the result.
C9_ContainsIn ==
    (built.ok /\ built.v.operator = "contains_in" /\ opres # "none") =>
        LET declared == built.v.value
        IN  /\ opres = "true" <=>
                  /\ declared.t = "list"
                  /\ observed.t = "str"
                  /\ \E i \in 1..Len(declared.v) :
                        /\ declared.v[i].t = "str"
                        /\ IsSubstring(Casefold(declared.v[i].v),
                                       Casefold(observed.v))
            /\ declared.t # "list" => opres = "false"
            /\ observed.t # "str" => opres = "false"
            /\ declared = List(<<>>) => opres = "false"
            /\ opres = B2S(OpContainsIn(declared, SwapCase(observed)))
            /\ opres = B2S(OpContainsIn(SwapCase(declared), observed))

\* C9's case: a declared list holding "aB" was found in the observed "xAb".
C9_Witness ==
    /\ built.ok
    /\ built.v.operator = "contains_in"
    /\ built.v.value.t = "list"
    /\ \E i \in 1..Len(built.v.value.v) : built.v.value.v[i] = Str(<<"a", "B">>)
    /\ observed = Str(<<"x", "A", "b">>)
    /\ opres = "true"

OperatorRank(op) == CHOOSE j \in 1..Len(OPERATORS) : OPERATORS[j] = op

\* C10 (as claimed): of several operator keys the one bound is the first in
\* the order of OPERATORS, whatever the order the keys were written in.
C10_FirstOperatorNameWins ==
    built.ok =>
        \A i \in 1..Len(decl) :
            decl[i][1] \in OperatorNames =>
                OperatorRank(built.v.operator) <= OperatorRank(decl[i][1])

\* C10 (amended): with no operator key the operator is `true` and the value
\* None; otherwise the operator bound is the operator key written first in the
\* declaration, with its value (hex-decoded when the rule's type is Bytes).
C10_FirstWrittenOperatorWins ==
    built.ok =>
        /\ ~HasOperatorKey(decl) =>
              built.v.operator = "true" /\ built.v.value = None
        /\ \A i \in 1..Len(decl) :
              ( /\ decl[i][1] \in OperatorNames
                /\ \A k \in 1..(i - 1) : decl[k][1] \notin OperatorNames ) =>
                    /\ built.v.operator = decl[i][1]
                    /\ built.v.type # TYPE_BYTES => built.v.value = decl[i][2]

\* C10's case: a rule built from a declaration that writes `in` before `equals`.
C10_Witness ==
    /\ built.ok
    /\ HasKey(decl, "in")
    /\ HasKey(decl, "equals")
    /\ built.v.operator = "in"

(***************************************************************************)
(* Properties of Signature.match (SpecMatch)                               *)
(***************************************************************************)
Recognized(element) ==
    element \in {FUNCTION_NAME, NUMBER_OF_ARGUMENTS, ARGUMENT, ANY_ARGUMENT}

\* Whether a rule of a recognised element matches a call: on the function
\* name, on the argument count, on arguments[argument_index] where the index
\* is below the count and the list has that position (Python counts a negative
\* index from the end), or on some argument.
RuleHolds(rule, c) ==
    CASE rule.element = FUNCTION_NAME -> RuleMatch(rule, c.function_name)
      [] rule.element = NUMBER_OF_ARGUMENTS ->
            RuleMatch(rule, Num(c.number_of_arguments))
      [] rule.element = ARGUMENT ->
            LET n == c.number_of_arguments
                i == rule.argument_index.v
            IN  /\ 0 - n <= i /\ i < n
                /\ RuleMatch(rule, c.arguments[((i + n) % n) + 1])
      [] rule.element = ANY_ARGUMENT ->
            \E i \in 1..Len(c.arguments) : RuleMatch(rule, c.arguments[i])

\* C1: for a signature of recognised rules, Signature.match returns true iff
\* every rule matches the call (stopping at the first rule that fails changes
\* nothing); an `any argument` rule never holds of a call without arguments;
\* a signature without rules matches every call.
C1_MatchIffEveryRuleHolds ==
    (matchpc = "done" /\ \A i \in 1..Len(sig) : Recognized(sig[i].element)) =>
        /\ result = "true" <=> \A i \in 1..Len(sig) : RuleHolds(sig[i], call)
        /\ sig = <<>> => result = "true"
        /\ ( /\ call.arguments = <<>>
             /\ \E i \in 1..Len(sig) : sig[i].element = ANY_ARGUMENT )
                => result # "true"

\* C1's case: the second of two rules failed after the first matched (the
\* count is 1, the first argument does not hold "aB").
C1_Witness ==
    /\ matchpc = "done"
    /\ Len(sig) = 2
    /\ sig[1].element = NUMBER_OF_ARGUMENTS
    /\ sig[2].element = ARGUMENT /\ sig[2].operator = "contains"
    /\ call.number_of_arguments = 1
    /\ Len(evals) = 2
    /\ result = "false"

\* C2: a `function name` rule handed the None that Call makes of a sub_* name
\* matches, whatever its operator, value and type; it is never the rule that
\* makes Signature.match return false.
C2_UnknownFunctionNameMatches ==
    (matchpc # "new" /\ StartsWith(raw.name, SUB_PREFIX)) =>
        /\ \A k \in 1..Len(evals) :
              sig[k].element = FUNCTION_NAME =>
                  evals[k] = Outcome("match", <<None>>)
        /\ result = "false" => sig[Len(evals)].element # FUNCTION_NAME

\* C2's case: a call to sub_1 matched by two `function name` rules, one
\* `equals "open"` of type String and one `contains "pe"` of type Number.
C2_Witness ==
    /\ StartsWith(raw.name, SUB_PREFIX)
    /\ call.function_name = None
    /\ Len(sig) = 2
    /\ sig[1].element = FUNCTION_NAME /\ sig[1].operator = "equals"
    /\ sig[2].element = FUNCTION_NAME /\ sig[2].operator = "contains"
    /\ sig[2].type = TYPE_NUMBER
    /\ evals = <<Outcome("match", <<None>>), Outcome("match", <<None>>)>>
    /\ result = "true"

\* C4 (as claimed): an `argument` rule whose index is outside
\* 0 .. argument_count-1 is a non-match: no error is raised, no argument is
\* handed to the rule, and Signature.match returns false.
C4_OutOfRangeIndexIsNonMatch ==
    \A k \in 1..Len(evals) :
        ( /\ sig[k].element = ARGUMENT
          /\ sig[k].argument_index.v \notin 0..(call.number_of_arguments - 1) ) =>
              /\ evals[k] = Outcome("nomatch", <<>>)
              /\ result = "false"

HasUnrecognized == \E i \in 1..Len(sig) : ~Recognized(sig[i].element)

FirstUnrecognized ==
    CHOOSE i \in 1..Len(sig) :
        /\ ~Recognized(sig[i].element)
        /\ \A k \in 1..(i - 1) : Recognized(sig[k].element)

WellFormed(f) ==
    /\ IsDeclarationFile(f.name)
    /\ SignatureInit(PathJoin(f.dir, f.name), f.content).ok

\* C6 (as claimed): once loading is over the catalog holds exactly one
\* Signature for each well-formed declaration file of the walk, in walk order;
\* a malformed file is skipped and does not keep the others from being loaded.
C6_EveryWellFormedFileIsLoaded ==
    loadpc \notin {"walking", "idle"} =>
        LET good == SelectSeq(files, WellFormed)
        IN  /\ Len(signatures) = Len(good)
            /\ \A i \in 1..Len(good) :
                  signatures[i].path = PathJoin(good[i].dir, good[i].name)

(***************************************************************************)
(* Properties of CallSignaturesPlugin.run (SpecRun)                        *)
(***************************************************************************)
RECURSIVE Concat(_)
Concat(seqs) == IF seqs = <<>> THEN <<>> ELSE Head(seqs) \o Concat(Tail(seqs))

\* The (call, signature) pairs of a function, call by call and for a call in
\* catalog order; none for a library function, a thunk, a function that does
\* not decompile.
PairsOfFunction(f) ==
    IF \/ HasFlag(f.flags, FUNC_LIB)
       \/ HasFlag(f.flags, FUNC_THUNK)
       \/ f.decompile # "ok"
    THEN <<>>
    ELSE Concat([c \in 1..Len(f.calls) |->
                    [k \in 1..Len(signatures) |-> <<f.calls[c], signatures[k]>>]])

\* The pairs of the run, in scan order.
ScanPairs == Concat([i \in 1..Len(functions) |-> PairsOfFunction(functions[i])])

PairResult(p) == SignatureMatch(p[2].rules, CallInit(p[1]))

LineOf(p) ==
    <<Hex(p[1].ea), p[2].technique, CallStr(CallInit(p[1])), p[2].filename>>

RECURSIVE LinesOf(_)
\* One line for each pair that matches, in the pairs' order.
LinesOf(pairs) ==
    IF pairs = <<>> THEN <<>>
    ELSE IF PairResult(Head(pairs)) = "true"
         THEN <<LineOf(Head(pairs))>> \o LinesOf(Tail(pairs))
         ELSE LinesOf(Tail(pairs))

Raises(p) == PairResult(p) \notin {"true", "false"}

\* The pairs before the first one on which Signature.match raises.
PairsBeforeRaise ==
    IF \E i \in 1..Len(ScanPairs) : Raises(ScanPairs[i])
    THEN SubSeq(ScanPairs, 1,
                (CHOOSE i \in 1..Len(ScanPairs) :
                    /\ Raises(ScanPairs[i])
                    /\ \A k \in 1..(i - 1) : ~Raises(ScanPairs[k])) - 1)
    ELSE ScanPairs

RunOver == runpc \notin {"functions", "calls", "idle"}

\* C7 (as claimed): after a run the list holds its old lines followed by one
\* line for each matching pair of the scan, in scan order.
C7_OneLinePerMatchingPair ==
    RunOver => items = items0 \o LinesOf(ScanPairs)

\* C7 (amended): the old lines stay as they are; after a run they are
\* followed by one line for each matching pair that comes before the first pair
\* on which Signature.match raises (every pair when none raises); a function
\* that fails to decompile contributes nothing and does not end the run, which
\* ends early only by such an exception.
C7_OneLinePerMatchingPairBeforeRaise ==
    /\ Len(items0) <= Len(items) /\ SubSeq(items, 1, Len(items0)) = items0
    /\ RunOver =>
          /\ items = items0 \o LinesOf(PairsBeforeRaise)
          /\ runpc = "done" <=> \A i \in 1..Len(ScanPairs) : ~Raises(ScanPairs[i])

\* C7's case: a run over a function that failed to decompile and then a
\* function with a matching call ended, and added lines to an old one.
C7_Witness ==
    /\ runpc = "done"
    /\ Len(functions) = 2
    /\ functions[1].decompile = "RuntimeError"
    /\ items0 # <<>>
    /\ Len(items) > Len(items0)

=============================================================================
